---- MODULE Spec2Model ----
(***************************************************************************)
(* Model of resume-analyzer-api/src/routes/analyzer.py: the analysis       *)
(* pipeline (extract_text_from_pdf, preprocess, calculate_similarity,      *)
(* extract_skills, analyze_skills) and the /analyze handler                *)
(* analyze_resumes that sequences them over a batch of resumes.            *)
(*                                                                         *)
(* Text is a sequence of one-character strings.  The external libraries    *)
(* (PyPDF2, NLTK, spaCy) are modelled by the values the code reads from    *)
(* them: a PDF is a sequence of page outcomes, an nlp() document is its    *)
(* vector and its noun chunks.                                             *)
(***************************************************************************)
EXTENDS Integers, Sequences, FiniteSets, TLC

VARIABLES
    call,                   \* pure-function harness: the function and its arguments
    ret,                    \* pure-function harness: the value returned
    data,                   \* analyze_resumes: request.get_json()
    hash_seed,              \* process-wide string hash seed (set iteration order)
    nlp,                    \* the loaded spaCy model: the document of each text
    pc,                     \* analyze_resumes: position in the handler
    idx,                    \* analyze_resumes: position of the for loop in resume_files
    jd_processed,
    results_list,
    valid_resumes_count,
    resume_text_raw,
    resume_text_processed,
    scoring,                \* match_score, strengths, missing, feedback of this iteration
    response,               \* the (json, http code) the handler returns
    stages                  \* observation: per resume, the pipeline stages it went through

vars == <<call, ret, data, hash_seed, nlp, pc, idx, jd_processed, results_list,
          valid_resumes_count, resume_text_raw, resume_text_processed, scoring,
          response, stages>>

handler_vars == <<data, hash_seed, nlp, pc, idx, jd_processed, results_list,
                  valid_resumes_count, resume_text_raw, resume_text_processed,
                  scoring, response, stages>>

(***************************************************************************)
(* Bounds of the model.                                                    *)
(***************************************************************************)
MaxTextLen == 4             \* longest raw text given to preprocess on its own
MaxPages == 3               \* most pages of a PDF given to extract_text_from_pdf
MaxResumes == 3             \* most elements of resume_files
NChunks == 14               \* noun chunks the nlp model can report
MaxCoord == 2               \* largest absolute coordinate of a document vector

(***************************************************************************)
(* Text                                                                    *)
(***************************************************************************)
Chars == {"u", "s", "a", "U", " ", "-"}

WordChars == {"u", "s", "a", "U"}

Lower(c) == IF c = "U" THEN "u" ELSE c

LowerText(text) == [k \in 1..Len(text) |-> Lower(text[k])]

\* re.sub(r'\W+', ' ', text): every maximal run of non-word characters
\* becomes one space.
RECURSIVE SubNonWord(_)
SubNonWord(text) ==
    IF text = <<>> THEN <<>>
    ELSE IF Head(text) \in WordChars THEN <<Head(text)>> \o SubNonWord(Tail(text))
    ELSE IF Len(text) > 1 /\ text[2] \notin WordChars THEN SubNonWord(Tail(text))
    ELSE <<" ">> \o SubNonWord(Tail(text))

\* word_tokenize on text that holds only word characters and single spaces:
\* the maximal runs of word characters, in order.
RECURSIVE TokenizeFrom(_, _)
TokenizeFrom(text, cur) ==
    IF text = <<>> THEN (IF cur = <<>> THEN <<>> ELSE <<cur>>)
    ELSE IF Head(text) = " "
         THEN (IF cur = <<>> THEN <<>> ELSE <<cur>>) \o TokenizeFrom(Tail(text), <<>>)
         ELSE TokenizeFrom(Tail(text), Append(cur, Head(text)))

word_tokenize(text) == TokenizeFrom(text, <<>>)

\* stopwords.words("english"), the entries spelled with the model's letters.
stop_words == {<<"a">>, <<"a", "s">>, <<"s">>}

\* WordNet's noun lemmas spelled with the model's letters, of length 3 or
\* less, and 'sus'.
WordNetNouns == {<<"a">>, <<"u">>, <<"s">>, <<"a", "s">>, <<"u", "s">>,
                 <<"a", "u">>, <<"a", "a">>, <<"s", "s">>, <<"a", "s", "s">>,
                 <<"u", "s", "a">>, <<"s", "u", "s">>}

\* WordNet's noun detachment rules that can match the model's letters:
\* ('s', '').
apply_rules(forms) ==
    {SubSeq(f, 1, Len(f) - 1) : f \in {g \in forms : g # <<>> /\ g[Len(g)] = "s"}}

filter_forms(forms) == forms \cap WordNetNouns

Shortest(forms) == CHOOSE f \in forms : \A g \in forms : Len(f) <= Len(g)

RECURSIVE MorphyLoop(_)
MorphyLoop(forms) ==
    IF forms = {} THEN {}
    ELSE LET next == apply_rules(forms)
             found == filter_forms(next)
         IN IF found # {} THEN found ELSE MorphyLoop(next)

morphy(form) ==
    LET forms == apply_rules({form})
        results == filter_forms({form} \cup forms)
    IN IF results # {} THEN results ELSE MorphyLoop(forms)

\* WordNetLemmatizer.lemmatize(word): the shortest lemma morphy finds, else
\* the word itself.
lemmatize(word) ==
    LET lemmas == morphy(word)
    IN IF lemmas = {} THEN word ELSE Shortest(lemmas)

RECURSIVE JoinSpace(_)
JoinSpace(tokens) ==
    IF tokens = <<>> THEN <<>>
    ELSE IF Len(tokens) = 1 THEN tokens[1]
    ELSE tokens[1] \o <<" ">> \o JoinSpace(Tail(tokens))

KeepToken(t) == t \notin stop_words /\ Len(t) > 1

\* [lem.lemmatize(t) for t in tokens if t not in stop_words and len(t) > 1]
RECURSIVE ProcessTokens(_)
ProcessTokens(tokens) ==
    IF tokens = <<>> THEN <<>>
    ELSE IF KeepToken(Head(tokens))
         THEN <<lemmatize(Head(tokens))>> \o ProcessTokens(Tail(tokens))
         ELSE ProcessTokens(Tail(tokens))

processed_tokens(text) == ProcessTokens(word_tokenize(SubNonWord(LowerText(text))))

preprocess(text) ==
    IF text = <<>> THEN <<>>
    ELSE JoinSpace(processed_tokens(text))

(***************************************************************************)
(* extract_text_from_pdf                                                   *)
(*                                                                         *)
(* A file is [readable, pages]: readable is FALSE when open() or           *)
(* PyPDF2.PdfReader raises; each page is [raises, text], what              *)
(* page.extract_text() does on it (text <<>> is a page with no text).      *)
(* The function returns None or a non-empty text.                          *)
(***************************************************************************)
None == [present |-> FALSE, text |-> <<>>]

Some(t) == [present |-> TRUE, text |-> t]

\* Python's "not x" for a value that is None or a string.
Falsy(x) == ~x.present \/ x.text = <<>>

Newline == "\n"

\* The for loop of lines 70-73 inside the try of line 67: an exception of
\* page.extract_text() leaves the loop and reaches the except of line 74.
RECURSIVE ReadPages(_, _)
ReadPages(pages, text) ==
    IF pages = <<>> THEN [raised |-> FALSE, text |-> text]
    ELSE IF Head(pages).raises THEN [raised |-> TRUE, text |-> text]
    ELSE IF Head(pages).text # <<>>
         THEN ReadPages(Tail(pages), text \o Head(pages).text \o <<Newline>>)
         ELSE ReadPages(Tail(pages), text)

extract_text_from_pdf(file) ==
    IF ~file.readable THEN None
    ELSE LET r == ReadPages(file.pages, <<>>)
         IN IF r.raised THEN None
            ELSE IF r.text = <<>> THEN None
            ELSE Some(r.text)

(***************************************************************************)
(* calculate_similarity                                                    *)
(*                                                                         *)
(* An nlp() document is [has_vector, vector, noun_chunks], the vector with *)
(* integer coordinates.  A float is held exactly, as [num, rad, ulp]: the  *)
(* real num / sqrt(rad), and the sign ulp of the rounding error the        *)
(* floating-point computation of it left (0 when it is exact).             *)
(***************************************************************************)
Zero == [num |-> 0, rad |-> 1, ulp |-> 0]

One == [num |-> 1, rad |-> 1, ulp |-> 0]

\* The rounding errors a floating-point result can carry.
Ulps == {0 - 1, 0, 1}

Dot(a, b) == a[1] * b[1] + a[2] * b[2]

\* doc.vector_norm: the square root of the sum of the squares, n / sqrt(n).
vector_norm(doc) ==
    LET n == Dot(doc.vector, doc.vector)
    IN IF n = 0 THEN Zero ELSE [num |-> n, rad |-> n, ulp |-> 0]

\* Python's "not x" for a float.
IsZero(x) == x.num = 0 /\ x.ulp = 0

\* sklearn's cosine_similarity of two vectors: a.b / (|a| |b|), computed in
\* floating point with rounding error ulp; a zero vector gives 0.0.
cosine_similarity(a, b, ulp) ==
    IF Dot(a, a) = 0 \/ Dot(b, b) = 0 THEN Zero
    ELSE [num |-> Dot(a, b), rad |-> Dot(a, a) * Dot(b, b), ulp |-> ulp]

LessThanOne(x) ==
    x.num <= 0 \/ x.num * x.num < x.rad \/ (x.num * x.num = x.rad /\ x.ulp < 0)

GreaterThanZero(x) == x.num > 0 \/ (x.num = 0 /\ x.ulp > 0)

\* min(1.0, x)
MinOne(x) == IF LessThanOne(x) THEN x ELSE One

\* max(0.0, x)
MaxZero(x) == IF GreaterThanZero(x) THEN x ELSE Zero

Times(x, k) == [x EXCEPT !.num = @ * k]

Min(a, b) == IF a < b THEN a ELSE b

\* calculate_similarity with the clamp of line 100 left out.
calculate_similarity_unclamped(jd_text, resume_text, jd_nlp, resume_nlp, ulp) ==
    IF jd_text = <<>> \/ resume_text = <<>>
    THEN [value |-> Zero, cosine_calls |-> 0]
    ELSE IF ~jd_nlp.has_vector \/ ~resume_nlp.has_vector
            \/ IsZero(vector_norm(jd_nlp)) \/ IsZero(vector_norm(resume_nlp))
    THEN [value |-> Zero, cosine_calls |-> 0]
    ELSE [value |-> Times(cosine_similarity(jd_nlp.vector, resume_nlp.vector, ulp), 100),
          cosine_calls |-> 1]

\* The documents are nlp(jd_text) and nlp(resume_text), read only after the
\* guard of line 93; ulp is the rounding error of the cosine.  cosine_calls
\* counts the calls of cosine_similarity made on the way.
calculate_similarity(jd_text, resume_text, jd_nlp, resume_nlp, ulp) ==
    IF jd_text = <<>> \/ resume_text = <<>>
    THEN [value |-> Zero, cosine_calls |-> 0]
    ELSE IF ~jd_nlp.has_vector \/ ~resume_nlp.has_vector
            \/ IsZero(vector_norm(jd_nlp)) \/ IsZero(vector_norm(resume_nlp))
    THEN [value |-> Zero, cosine_calls |-> 0]
    ELSE LET similarity == cosine_similarity(jd_nlp.vector, resume_nlp.vector, ulp)
         IN [value |-> Times(MaxZero(MinOne(similarity)), 100), cosine_calls |-> 1]

(***************************************************************************)
(* extract_skills, analyze_skills                                          *)
(*                                                                         *)
(* A noun chunk is known by its lowercased text, a number of 1..NChunks;   *)
(* the code reads its number of words, its length and whether all of its   *)
(* words are stop words.  doc.noun_chunks lists the chunks in document     *)
(* order.                                                                  *)
(*                                                                         *)
(* A set of strings is the interpreter's hash table, [mask, table]: table  *)
(* maps the slots 0..mask to the string held there, 0 for an unused slot   *)
(* and Dummy for a discarded one.  list(set) reads the table in slot       *)
(* order, so the order depends on the hashes, on the size of the table and *)
(* on the order in which the set was filled.                               *)
(***************************************************************************)
ChunkIds == 1..NChunks

ChunkWords(c) == IF c = 1 THEN 4 ELSE 1 + (c % 3)

ChunkLen(c) == IF c = 2 THEN 2 ELSE 3 + c

ChunkAllStop(c) == c = 3

\* hash(string): decided by the process's hash seed.
HashSeeds == {1, 3, 5}

Hash(c, seed) == (c * c * 7 * seed + c * 12 + seed) % 1024

Dummy == 0 - 1

LINEAR_PROBES == 9

PERTURB_SHIFT == 5

EmptyTable(size) == [i \in 0..(size - 1) |-> 0]

\* set(), and the set a comprehension starts from.
NewSet == [mask |-> 7, table |-> EmptyTable(8)]

Used(so) == Cardinality({i \in DOMAIN so.table : so.table[i] > 0})

Fill(so) == Cardinality({i \in DOMAIN so.table : so.table[i] # 0})

\* The slot that holds key, or the unused slot the probe sequence of its
\* hash reaches first: up to LINEAR_PROBES slots in a row, then a jump.
RECURSIVE set_lookkey(_, _, _, _, _)
set_lookkey(table, mask, key, i, perturb) ==
    LET probes == IF i + LINEAR_PROBES <= mask THEN LINEAR_PROBES ELSE 0
        hits == {e \in i..(i + probes) : table[e] = 0 \/ table[e] = key}
    IN IF hits # {}
       THEN CHOOSE e \in hits : \A f \in hits : e <= f
       ELSE set_lookkey(table, mask, key,
                        (i * 5 + 1 + (perturb \div (2 ^ PERTURB_SHIFT))) % (mask + 1),
                        perturb \div (2 ^ PERTURB_SHIFT))

SlotOf(table, mask, key, seed) ==
    set_lookkey(table, mask, key, Hash(key, seed) % (mask + 1), Hash(key, seed))

\* The strings of a table in slot order: what iterating the set yields.
RECURSIVE ListFrom(_, _, _)
ListFrom(table, i, mask) ==
    IF i > mask THEN <<>>
    ELSE (IF table[i] > 0 THEN <<table[i]>> ELSE <<>>) \o ListFrom(table, i + 1, mask)

SetToList(so) == ListFrom(so.table, 0, so.mask)

RECURSIVE set_insert_clean(_, _, _, _)
set_insert_clean(table, mask, keys, seed) ==
    IF keys = <<>> THEN table
    ELSE set_insert_clean(
             [table EXCEPT ![SlotOf(table, mask, Head(keys), seed)] = Head(keys)],
             mask, Tail(keys), seed)

RECURSIVE NewTableSize(_, _)
NewTableSize(size, minused) ==
    IF size <= minused THEN NewTableSize(2 * size, minused) ELSE size

\* A table of the first power of two above minused, refilled in slot order.
set_table_resize(so, minused, seed) ==
    LET size == NewTableSize(8, minused)
    IN [mask |-> size - 1,
        table |-> set_insert_clean(EmptyTable(size), size - 1, SetToList(so), seed)]

\* The table grows to four times its content once it is 3/5 full.
set_add(so, key, seed) ==
    LET e == SlotOf(so.table, so.mask, key, seed)
        added == [so EXCEPT !.table[e] = key]
    IN IF so.table[e] # 0 THEN so
       ELSE IF Fill(added) * 5 < added.mask * 3 THEN added
       ELSE set_table_resize(added, Used(added) * 4, seed)

RECURSIVE set_update(_, _, _)
set_update(so, keys, seed) ==
    IF keys = <<>> THEN so
    ELSE set_update(set_add(so, Head(keys), seed), Tail(keys), seed)

set_contains(so, key, seed) == so.table[SlotOf(so.table, so.mask, key, seed)] # 0

RECURSIVE set_discard(_, _, _)
set_discard(so, keys, seed) ==
    IF keys = <<>> THEN so
    ELSE LET e == SlotOf(so.table, so.mask, Head(keys), seed)
         IN set_discard(IF so.table[e] = 0 THEN so ELSE [so EXCEPT !.table[e] = Dummy],
                        Tail(keys), seed)

\* set.copy(): slot by slot into a table of the same size, else refilled in
\* slot order into a table of the first power of two above twice the content.
set_copy(so, seed) ==
    IF Used(so) = 0 THEN NewSet
    ELSE LET target == IF Used(so) * 5 >= NewSet.mask * 3
                       THEN set_table_resize(NewSet, Used(so) * 2, seed)
                       ELSE NewSet
         IN IF target.mask = so.mask /\ Fill(so) = Used(so) THEN so
            ELSE [target EXCEPT !.table =
                      set_insert_clean(target.table, target.mask, SetToList(so), seed)]

\* so.intersection(other): the smaller set is walked in slot order and its
\* members found in the other are added to a new set.
set_intersection(so, other, seed) ==
    LET walked == IF Used(other) > Used(so) THEN so ELSE other
        looked == IF Used(other) > Used(so) THEN other ELSE so
    IN set_update(NewSet,
                  SelectSeq(SetToList(walked), LAMBDA k : set_contains(looked, k, seed)),
                  seed)

\* so.difference(other): a copy of so with other's members discarded when so
\* is more than four times as large, else so walked in slot order and the
\* members not found in other added to a new set.
set_difference(so, other, seed) ==
    IF Used(so) \div 4 > Used(other)
    THEN LET result == set_discard(set_copy(so, seed), SetToList(other), seed)
         IN IF Fill(result) - Used(result) <= result.mask \div 4 THEN result
            ELSE set_table_resize(result, Used(result) * 4, seed)
    ELSE set_update(NewSet,
                    SelectSeq(SetToList(so), LAMBDA k : ~set_contains(other, k, seed)),
                    seed)

\* Two set comprehensions: the first filled in document order, the second in
\* the slot order of the first.
extract_skills(text, doc, seed) ==
    IF text = <<>> THEN NewSet
    ELSE LET skills == set_update(NewSet,
                 SelectSeq(doc.noun_chunks, LAMBDA c : ChunkWords(c) <= 3), seed)
         IN set_update(NewSet,
                 SelectSeq(SetToList(skills),
                           LAMBDA s : ChunkLen(s) > 2 /\ ~ChunkAllStop(s)), seed)

Take(list, n) == SubSeq(list, 1, Min(n, Len(list)))

MAX_SKILLS_DISPLAY == 10

NoSkillsFeedback == [kind |-> "no_jd_skills", strengths |-> 0, gaps |-> 0, like |-> <<>>]

SkillsFeedback(strengths, missing_skills) ==
    IF missing_skills # <<>>
    THEN [kind |-> "gaps", strengths |-> Len(strengths), gaps |-> Len(missing_skills),
          like |-> Take(missing_skills, 3)]
    ELSE [kind |-> "covers_all", strengths |-> Len(strengths), gaps |-> 0,
          like |-> <<>>]

\* analyze_skills returning the whole lists, the slices of line 128 left out.
analyze_skills_untruncated(jd_text, resume_text, jd_nlp, resume_nlp, seed) ==
    LET jd_skills == extract_skills(jd_text, jd_nlp, seed)
        resume_skills == extract_skills(resume_text, resume_nlp, seed)
        strengths == SetToList(set_intersection(jd_skills, resume_skills, seed))
        missing_skills == SetToList(set_difference(jd_skills, resume_skills, seed))
    IN IF Used(jd_skills) = 0
       THEN [strengths |-> <<>>, missing |-> <<>>, feedback |-> NoSkillsFeedback]
       ELSE [strengths |-> strengths, missing |-> missing_skills,
             feedback |-> SkillsFeedback(strengths, missing_skills)]

\* analyze_skills with the difference of line 119 taken the other way round.
analyze_skills_swapped(jd_text, resume_text, jd_nlp, resume_nlp, seed) ==
    LET jd_skills == extract_skills(jd_text, jd_nlp, seed)
        resume_skills == extract_skills(resume_text, resume_nlp, seed)
        strengths == SetToList(set_intersection(jd_skills, resume_skills, seed))
        missing_skills == SetToList(set_difference(resume_skills, jd_skills, seed))
    IN IF Used(jd_skills) = 0
       THEN [strengths |-> <<>>, missing |-> <<>>, feedback |-> NoSkillsFeedback]
       ELSE [strengths |-> Take(strengths, MAX_SKILLS_DISPLAY),
             missing |-> Take(missing_skills, MAX_SKILLS_DISPLAY),
             feedback |-> SkillsFeedback(strengths, missing_skills)]

analyze_skills(jd_text, resume_text, jd_nlp, resume_nlp, seed) ==
    LET jd_skills == extract_skills(jd_text, jd_nlp, seed)
        resume_skills == extract_skills(resume_text, resume_nlp, seed)
        strengths == SetToList(set_intersection(jd_skills, resume_skills, seed))
        missing_skills == SetToList(set_difference(jd_skills, resume_skills, seed))
    IN IF Used(jd_skills) = 0
       THEN [strengths |-> <<>>, missing |-> <<>>, feedback |-> NoSkillsFeedback]
       ELSE [strengths |-> Take(strengths, MAX_SKILLS_DISPLAY),
             missing |-> Take(missing_skills, MAX_SKILLS_DISPLAY),
             feedback |-> SkillsFeedback(strengths, missing_skills)]

(***************************************************************************)
(* The pure functions on their own: Init draws the arguments, the one      *)
(* action applies the function.  The handler stays idle.                   *)
(***************************************************************************)
NoRet == [done |-> FALSE]

HandlerIdle ==
    /\ data = [present |-> FALSE]
    /\ hash_seed = 1
    /\ nlp = <<>>
    /\ pc = "idle"
    /\ idx = 0
    /\ jd_processed = <<>>
    /\ results_list = <<>>
    /\ valid_resumes_count = 0
    /\ resume_text_raw = None
    /\ resume_text_processed = <<>>
    /\ scoring = [set |-> FALSE]
    /\ response = [returned |-> FALSE]
    /\ stages = <<>>

Texts(n) == UNION {[1..k -> Chars] : k \in 0..n}

\* ---- preprocess ----
InitPreprocess ==
    /\ call \in {[fn |-> "preprocess", text |-> t] : t \in Texts(MaxTextLen)}
    /\ ret = NoRet
    /\ HandlerIdle

CallPreprocess ==
    /\ call.fn = "preprocess"
    /\ ~ret.done
    /\ ret' = [done |-> TRUE, value |-> preprocess(call.text)]
    /\ UNCHANGED <<call, handler_vars>>

SpecPreprocess == InitPreprocess /\ [][CallPreprocess]_vars

\* ---- extract_text_from_pdf ----
PageTexts == {<<>>, <<"u", "s">>, <<"a", "-">>}

Pages == {[raises |-> FALSE, text |-> t] : t \in PageTexts}
         \cup {[raises |-> TRUE, text |-> <<>>]}

PdfFiles(n) ==
    {[readable |-> r, pages |-> p] :
        r \in BOOLEAN, p \in UNION {[1..k -> Pages] : k \in 0..n}}

InitExtract ==
    /\ call \in {[fn |-> "extract_text_from_pdf", file |-> f] : f \in PdfFiles(MaxPages)}
    /\ ret = NoRet
    /\ HandlerIdle

CallExtract ==
    /\ call.fn = "extract_text_from_pdf"
    /\ ~ret.done
    /\ ret' = [done |-> TRUE, value |-> extract_text_from_pdf(call.file)]
    /\ UNCHANGED <<call, handler_vars>>

SpecExtract == InitExtract /\ [][CallExtract]_vars

\* ---- calculate_similarity ----
Coords == (0 - MaxCoord)..MaxCoord

VectorDocs ==
    {[has_vector |-> h, vector |-> <<x, y>>, noun_chunks |-> <<>>] :
        h \in BOOLEAN, x \in Coords, y \in Coords}

SimTexts == {<<>>, <<"u">>}

InitSimilarity ==
    /\ call \in {[fn |-> "calculate_similarity", jd_text |-> jt, resume_text |-> rt,
                  jd_nlp |-> jd, resume_nlp |-> rd, ulp |-> u] :
                    jt \in SimTexts, rt \in SimTexts,
                    jd \in VectorDocs, rd \in VectorDocs, u \in Ulps}
    /\ ret = NoRet
    /\ HandlerIdle

CallSimilarity ==
    /\ call.fn = "calculate_similarity"
    /\ ~ret.done
    /\ ret' = [done |-> TRUE,
               value |-> calculate_similarity(call.jd_text, call.resume_text,
                                              call.jd_nlp, call.resume_nlp, call.ulp)]
    /\ UNCHANGED <<call, handler_vars>>

SpecSimilarity == InitSimilarity /\ [][CallSimilarity]_vars

\* ---- analyze_skills ----
\* The chunks a..b in ascending and in descending document order; for the
\* resume the intervals at either end, and three chunks named twice.
Ascending(a, b) == [k \in 1..(b - a + 1) |-> a + k - 1]

Descending(a, b) == [k \in 1..(b - a + 1) |-> b - k + 1]

Intervals == {<<a, b>> \in (1..NChunks) \X (1..NChunks) : a <= b}

JdChunkLists ==
    {<<>>} \cup {Ascending(i[1], i[2]) : i \in Intervals}
           \cup {Descending(i[1], i[2]) : i \in Intervals}

ResumeChunkLists ==
    {<<>>} \cup {Ascending(i[1], i[2]) : i \in {j \in Intervals : j[1] = 1 \/ j[2] = NChunks}}
           \cup {Descending(i[1], i[2]) \o Ascending(i[1], i[2]) :
                    i \in {j \in Intervals : j[2] - j[1] = 2}}

ChunkDoc(chunks) == [has_vector |-> TRUE, vector |-> <<1, 1>>, noun_chunks |-> chunks]

InitSkills ==
    /\ call \in {[fn |-> "analyze_skills", jd_text |-> jt, resume_text |-> <<"u">>,
                  jd_nlp |-> ChunkDoc(j), resume_nlp |-> ChunkDoc(r), seed |-> s] :
                    jt \in SimTexts, j \in JdChunkLists, r \in ResumeChunkLists,
                    s \in HashSeeds}
    /\ ret = NoRet
    /\ HandlerIdle

CallSkills ==
    /\ call.fn = "analyze_skills"
    /\ ~ret.done
    /\ ret' = [done |-> TRUE,
               value |-> analyze_skills(call.jd_text, call.resume_text,
                                        call.jd_nlp, call.resume_nlp, call.seed)]
    /\ UNCHANGED <<call, handler_vars>>

SpecSkills == InitSkills /\ [][CallSkills]_vars

(***************************************************************************)
(* analyze_resumes                                                         *)
(*                                                                         *)
(* The request names files by path, a sequence of path components; FileAt  *)
(* is what the file system holds there.  An element of resume_files is     *)
(* [has_path, path, has_name, original_name].                              *)
(***************************************************************************)
UploadPath(name) == <<"tmp", "resume_uploads", name>>

FileAt(path) ==
    CASE path = UploadPath("good.pdf") ->
            [readable |-> TRUE,
             pages |-> <<[raises |-> FALSE, text |-> <<"U", "s">>],
                         [raises |-> FALSE, text |-> <<>>]>>]
      [] path = UploadPath("usa.pdf") ->
            [readable |-> TRUE,
             pages |-> <<[raises |-> FALSE, text |-> <<"u", "s", "a">>]>>]
      [] path = UploadPath("stop.pdf") ->
            [readable |-> TRUE, pages |-> <<[raises |-> FALSE, text |-> <<"a", "-">>]>>]
      [] path = UploadPath("blank.pdf") ->
            [readable |-> TRUE, pages |-> <<[raises |-> FALSE, text |-> <<>>]>>]
      [] OTHER -> [readable |-> FALSE, pages |-> <<>>]

ResumeFiles ==
    {[has_path |-> TRUE, path |-> UploadPath(p), has_name |-> TRUE,
      original_name |-> "cv"] :
        p \in {"good.pdf", "stop.pdf", "blank.pdf", "corrupt.pdf"}}
    \cup {[has_path |-> TRUE, path |-> UploadPath("usa.pdf"), has_name |-> FALSE,
           original_name |-> ""],
          [has_path |-> FALSE, path |-> <<>>, has_name |-> TRUE, original_name |-> "cv"]}

JobDescriptions == {<<>>, <<"a", "-">>, <<"U", "s">>}

BatchLists == UNION {[1..k -> ResumeFiles] : k \in 0..MaxResumes}

Requests ==
    {[present |-> FALSE]}
    \cup {[present |-> TRUE, has_resume_files |-> FALSE, resume_files |-> <<>>,
           has_job_description |-> TRUE, job_description |-> <<"U", "s">>]}
    \cup {[present |-> TRUE, has_resume_files |-> TRUE, resume_files |-> rf,
           has_job_description |-> FALSE, job_description |-> <<>>] :
            rf \in BatchLists}
    \cup {[present |-> TRUE, has_resume_files |-> TRUE, resume_files |-> rf,
           has_job_description |-> TRUE, job_description |-> jd] :
            rf \in BatchLists, jd \in JobDescriptions}

\* The normalized texts nlp() is called on: that of the job description 'Us'
\* and of good.pdf, and that of usa.pdf.
TextU == <<"u">>

TextUsa == <<"u", "s", "a">>

\* What nlp() can make of each: the same document each time it is called on
\* the same text.
DocsOfU ==
    {[has_vector |-> TRUE, vector |-> <<1, 2>>, noun_chunks |-> Ascending(1, NChunks)],
     [has_vector |-> TRUE, vector |-> <<0, 0>>, noun_chunks |-> <<3, 2, 1>>]}

DocsOfUsa ==
    {[has_vector |-> TRUE, vector |-> <<2, 1>>, noun_chunks |-> <<>>],
     [has_vector |-> TRUE, vector |-> <<0 - 1, 2>>, noun_chunks |-> Descending(1, 5)]}

NlpModels ==
    {[t \in {TextU, TextUsa} |-> IF t = TextU THEN du ELSE da] :
        du \in DocsOfU, da \in DocsOfUsa}

\* round(x, 1) of a float 0 <= x <= 100, in tenths: the q with
\* |10 x - q| <= 1/2; of two such q, the one on the side of the rounding
\* error, the even one when x is exact.
RoundCandidates(x) ==
    {q \in 0..1000 :
        /\ q = 0 \/ (2 * q - 1) * (2 * q - 1) * x.rad <= 400 * x.num * x.num
        /\ 400 * x.num * x.num <= (2 * q + 1) * (2 * q + 1) * x.rad}

Round1(x) ==
    LET c == RoundCandidates(x)
        lo == CHOOSE q \in c : \A r \in c : q <= r
        hi == CHOOSE q \in c : \A r \in c : q >= r
    IN IF x.ulp > 0 THEN hi
       ELSE IF x.ulp < 0 THEN lo
       ELSE IF lo % 2 = 0 THEN lo ELSE hi

resume_files == IF data.present THEN data.resume_files ELSE <<>>

resume_file == resume_files[idx]

file_path == resume_file.path

\* os.path.basename(path): the last component.
\* resume_file.get('original_name', os.path.basename(file_path))
basename(path) == path[Len(path)]

original_name ==
    IF resume_file.has_name THEN resume_file.original_name ELSE basename(file_path)

ErrorResponse(message) ==
    [returned |-> TRUE, status |-> "error", message |-> message, code |-> 400]

Init ==
    /\ call = [fn |-> "analyze_resumes"]
    /\ ret = NoRet
    /\ data \in Requests
    /\ hash_seed \in {1, 3}
    /\ nlp \in NlpModels
    /\ pc = "start"
    /\ idx = 0
    /\ jd_processed = <<>>
    /\ results_list = <<>>
    /\ valid_resumes_count = 0
    /\ resume_text_raw = None
    /\ resume_text_processed = <<>>
    /\ scoring = [set |-> FALSE]
    /\ response = [returned |-> FALSE]
    /\ stages = [k \in 1..Len(resume_files) |-> <<"pending">>]

\* Validate with the check of lines 262-266 left out.
ValidateNoJdCheck ==
    /\ pc = "start"
    /\ IF ~data.present
       THEN /\ response' = ErrorResponse("No data provided")
            /\ pc' = "returned"
            /\ UNCHANGED jd_processed
       ELSE IF ~data.has_resume_files \/ data.resume_files = <<>>
       THEN /\ response' = ErrorResponse("No resume files specified for analysis")
            /\ pc' = "returned"
            /\ UNCHANGED jd_processed
       ELSE IF ~data.has_job_description \/ data.job_description = <<>>
       THEN /\ response' = ErrorResponse("No job description provided for analysis")
            /\ pc' = "returned"
            /\ UNCHANGED jd_processed
       ELSE /\ jd_processed' = preprocess(data.job_description)
            /\ pc' = "loop"
            /\ UNCHANGED response
    /\ UNCHANGED <<call, ret, data, hash_seed, nlp, idx, results_list,
                   valid_resumes_count, resume_text_raw, resume_text_processed,
                   scoring, stages>>

\* Lines 237-269: the checks of the request and of the job description.
Validate ==
    /\ pc = "start"
    /\ IF ~data.present
       THEN /\ response' = ErrorResponse("No data provided")
            /\ pc' = "returned"
            /\ UNCHANGED jd_processed
       ELSE IF ~data.has_resume_files \/ data.resume_files = <<>>
       THEN /\ response' = ErrorResponse("No resume files specified for analysis")
            /\ pc' = "returned"
            /\ UNCHANGED jd_processed
       ELSE IF ~data.has_job_description \/ data.job_description = <<>>
       THEN /\ response' = ErrorResponse("No job description provided for analysis")
            /\ pc' = "returned"
            /\ UNCHANGED jd_processed
       ELSE /\ jd_processed' = preprocess(data.job_description)
            /\ IF jd_processed' = <<>>
               THEN /\ response' = ErrorResponse("Could not process the job description")
                    /\ pc' = "returned"
               ELSE /\ pc' = "loop"
                    /\ UNCHANGED response
    /\ UNCHANGED <<call, ret, data, hash_seed, nlp, idx, results_list,
                   valid_resumes_count, resume_text_raw, resume_text_processed,
                   scoring, stages>>

\* LoopNext leaving the loop at an element without 'path' where line 274
\* continues.
LoopNextBreak ==
    /\ pc = "loop"
    /\ idx < Len(resume_files)
    /\ idx' = IF resume_files[idx + 1].has_path THEN idx + 1 ELSE Len(resume_files)
    /\ pc' = IF resume_files[idx + 1].has_path THEN "extract" ELSE "loop"
    /\ UNCHANGED <<call, ret, data, hash_seed, nlp, jd_processed, results_list,
                   valid_resumes_count, resume_text_raw, resume_text_processed,
                   scoring, response, stages>>

\* Lines 272-277: the for loop takes the next element; one without 'path'
\* is passed over.
LoopNext ==
    /\ pc = "loop"
    /\ idx < Len(resume_files)
    /\ idx' = idx + 1
    /\ pc' = IF resume_files[idx + 1].has_path THEN "extract" ELSE "loop"
    /\ UNCHANGED <<call, ret, data, hash_seed, nlp, jd_processed, results_list,
                   valid_resumes_count, resume_text_raw, resume_text_processed,
                   scoring, response, stages>>

\* Extract answering the whole request with an error where line 287 continues.
ExtractAbort ==
    /\ pc = "extract"
    /\ resume_text_raw' = extract_text_from_pdf(FileAt(file_path))
    /\ IF Falsy(resume_text_raw')
       THEN /\ results_list' = Append(results_list,
                    [resume |-> original_name, status |-> "error",
                     message |-> "Could not extract text from PDF", position |-> idx])
            /\ stages' = [stages EXCEPT ![idx] = Append(@, "failed")]
            /\ response' = ErrorResponse("Could not extract text from PDF")
            /\ pc' = "returned"
       ELSE /\ stages' = [stages EXCEPT ![idx] = Append(@, "extracted")]
            /\ pc' = "preprocess"
            /\ UNCHANGED <<results_list, response>>
    /\ UNCHANGED <<call, ret, data, hash_seed, nlp, idx, jd_processed,
                   valid_resumes_count, resume_text_processed, scoring>>

\* Lines 280-287.
Extract ==
    /\ pc = "extract"
    /\ resume_text_raw' = extract_text_from_pdf(FileAt(file_path))
    /\ IF Falsy(resume_text_raw')
       THEN /\ results_list' = Append(results_list,
                    [resume |-> original_name, status |-> "error",
                     message |-> "Could not extract text from PDF", position |-> idx])
            /\ stages' = [stages EXCEPT ![idx] = Append(@, "failed")]
            /\ pc' = "loop"
       ELSE /\ stages' = [stages EXCEPT ![idx] = Append(@, "extracted")]
            /\ pc' = "preprocess"
            /\ UNCHANGED results_list
    /\ UNCHANGED <<call, ret, data, hash_seed, nlp, idx, jd_processed,
                   valid_resumes_count, resume_text_processed, scoring, response>>

\* Preprocess with the check of lines 291-297 left out.
PreprocessNoCheck ==
    /\ pc = "preprocess"
    /\ resume_text_processed' = preprocess(resume_text_raw.text)
    /\ stages' = [stages EXCEPT ![idx] = Append(@, "normalized")]
    /\ pc' = "score"
    /\ UNCHANGED <<call, ret, data, hash_seed, nlp, idx, jd_processed, results_list,
                   valid_resumes_count, resume_text_raw, scoring, response>>

\* Lines 290-297.
Preprocess ==
    /\ pc = "preprocess"
    /\ resume_text_processed' = preprocess(resume_text_raw.text)
    /\ IF resume_text_processed' = <<>>
       THEN /\ results_list' = Append(results_list,
                    [resume |-> original_name, status |-> "error",
                     message |-> "Could not preprocess resume text", position |-> idx])
            /\ stages' = [stages EXCEPT ![idx] = Append(@, "failed")]
            /\ pc' = "loop"
       ELSE /\ stages' = [stages EXCEPT ![idx] = Append(@, "normalized")]
            /\ pc' = "score"
            /\ UNCHANGED results_list
    /\ UNCHANGED <<call, ret, data, hash_seed, nlp, idx, jd_processed,
                   valid_resumes_count, resume_text_raw, scoring, response>>

\* Lines 300-303; ulp is the rounding error of the cosine.
Score ==
    /\ pc = "score"
    /\ \E ulp \in Ulps :
         scoring' = [set |-> TRUE,
                     raw |-> resume_text_raw,
                     processed |-> resume_text_processed,
                     match_score |-> calculate_similarity(jd_processed,
                                        resume_text_processed, nlp[jd_processed],
                                        nlp[resume_text_processed], ulp).value,
                     skills |-> analyze_skills(jd_processed, resume_text_processed,
                                        nlp[jd_processed], nlp[resume_text_processed],
                                        hash_seed)]
    /\ stages' = [stages EXCEPT ![idx] = Append(@, "scored")]
    /\ pc' = "append"
    /\ UNCHANGED <<call, ret, data, hash_seed, nlp, idx, jd_processed, results_list,
                   valid_resumes_count, resume_text_raw, resume_text_processed,
                   response>>

\* Lines 306-315.
AppendResult ==
    /\ pc = "append"
    /\ results_list' = Append(results_list,
            [resume |-> original_name, status |-> "success",
             match_score |-> Round1(scoring.match_score),
             key_strengths |-> scoring.skills.strengths,
             missing_skills |-> scoring.skills.missing,
             feedback |-> scoring.skills.feedback,
             position |-> idx])
    /\ valid_resumes_count' = valid_resumes_count + 1
    /\ stages' = [stages EXCEPT ![idx] = Append(@, "done")]
    /\ pc' = "loop"
    /\ UNCHANGED <<call, ret, data, hash_seed, nlp, idx, jd_processed,
                   resume_text_raw, resume_text_processed, scoring, response>>

\* Finish deciding by the length of results_list where line 317 reads the count.
FinishOnEmptyList ==
    /\ pc = "loop"
    /\ idx = Len(resume_files)
    /\ response' = IF results_list = <<>>
                   THEN ErrorResponse("No valid resumes could be processed")
                   ELSE [returned |-> TRUE, status |-> "success",
                         message |-> valid_resumes_count, code |-> 200,
                         results |-> results_list]
    /\ pc' = "returned"
    /\ UNCHANGED <<call, ret, data, hash_seed, nlp, idx, jd_processed, results_list,
                   valid_resumes_count, resume_text_raw, resume_text_processed,
                   scoring, stages>>

\* Lines 317-327, once the for loop has taken every element.
Finish ==
    /\ pc = "loop"
    /\ idx = Len(resume_files)
    /\ response' = IF valid_resumes_count = 0
                   THEN ErrorResponse("No valid resumes could be processed")
                   ELSE [returned |-> TRUE, status |-> "success",
                         message |-> valid_resumes_count, code |-> 200,
                         results |-> results_list]
    /\ pc' = "returned"
    /\ UNCHANGED <<call, ret, data, hash_seed, nlp, idx, jd_processed, results_list,
                   valid_resumes_count, resume_text_raw, resume_text_processed,
                   scoring, stages>>

Next ==
    \/ Validate
    \/ LoopNext
    \/ Extract
    \/ Preprocess
    \/ Score
    \/ AppendResult
    \/ Finish

Spec == Init /\ [][Next]_vars

(***************************************************************************)
(* Properties                                                              *)
(***************************************************************************)
Positions == 1..Len(resume_files)

JobDescriptionEmpty ==
    data.present /\ (~data.has_job_description \/ data.job_description = <<>>
                     \/ preprocess(data.job_description) = <<>>)

\* The request passes the checks of lines 239-255 and its job description
\* normalizes to non-empty text.
Entered ==
    /\ data.present
    /\ data.has_resume_files
    /\ data.resume_files # <<>>
    /\ ~JobDescriptionEmpty

LoopFinished == pc = "returned" /\ Entered

ExtractionFails(k) ==
    resume_files[k].has_path /\ Falsy(extract_text_from_pdf(FileAt(resume_files[k].path)))

NormalizationFails(k) ==
    /\ resume_files[k].has_path
    /\ ~ExtractionFails(k)
    /\ preprocess(extract_text_from_pdf(FileAt(resume_files[k].path)).text) = <<>>

ResumeFails(k) == ExtractionFails(k) \/ NormalizationFails(k)

EntriesOf(k) == {n \in 1..Len(results_list) : results_list[n].position = k}

Last(seq) == seq[Len(seq)]

Ended(k) == Last(stages[k]) \in {"done", "failed"}

HasSuccessEntry == \E n \in 1..Len(results_list) : results_list[n].status = "success"

\* C1: with a usable job description, a resume that fails (no extracted text,
\* or empty normalized text) gets an error entry, and every resume after it
\* that names a file is still taken to its own success or error entry: the
\* failure does not end the loop.
C1_FailureIsolated ==
    LoopFinished =>
        /\ idx = Len(resume_files)
        /\ \A i \in Positions :
               ResumeFails(i) =>
                   /\ \E n \in EntriesOf(i) : results_list[n].status = "error"
                   /\ \A j \in (i + 1)..Len(resume_files) :
                          resume_files[j].has_path =>
                              /\ Ended(j)
                              /\ Cardinality(EntriesOf(j)) = 1
                              /\ \A n \in EntriesOf(j) :
                                     results_list[n].status = "success" <=> ~ResumeFails(j)

C1_Witness ==
    /\ LoopFinished
    /\ \E i, j \in Positions :
         /\ i < j
         /\ ResumeFails(i)
         /\ Last(stages[j]) = "done"
         /\ \E n \in EntriesOf(j) : results_list[n].status = "success"

\* The positions of the elements of resume_files that carry 'path', in order.
RECURSIVE PathPositionsFrom(_)
PathPositionsFrom(k) ==
    IF k > Len(resume_files) THEN <<>>
    ELSE (IF resume_files[k].has_path THEN <<k>> ELSE <<>>) \o PathPositionsFrom(k + 1)

PathPositions == PathPositionsFrom(1)

\* C2 as stated: when the loop has finished, results_list holds exactly one
\* entry per element of resume_files, entry k being about input k, for every
\* input list, elements without 'path' included.
C2_OneEntryPerInput ==
    LoopFinished =>
        /\ Len(results_list) = Len(resume_files)
        /\ \A k \in 1..Len(results_list) : results_list[k].position = k

\* C2 as amended: when the loop has finished, results_list holds exactly one
\* entry per element of resume_files that carries 'path', in input order;
\* entry k is about the k-th such element, and an element without 'path'
\* gets no entry.
C2_OneEntryPerPathElement ==
    LoopFinished =>
        /\ Len(results_list) = Len(PathPositions)
        /\ \A k \in 1..Len(results_list) : results_list[k].position = PathPositions[k]

C2_Witness ==
    /\ LoopFinished
    /\ \E k \in Positions : ~resume_files[k].has_path /\ k < Len(resume_files)
    /\ Len(results_list) = 2
    /\ Len(resume_files) = 3

\* C3: for a batch that passes validation and job-description normalization,
\* the overall status is 'success' exactly when some resume produced a
\* success entry; with none it is 'error' and the valid count is 0, whatever
\* error entries the run produced.
C3_SuccessIffOneSucceeded ==
    LoopFinished =>
        /\ response.status = "success" <=> HasSuccessEntry
        /\ ~HasSuccessEntry =>
               /\ response.status = "error"
               /\ valid_resumes_count = 0

C3_Witness ==
    /\ LoopFinished
    /\ response.status = "error"
    /\ results_list # <<>>
    /\ \A n \in 1..Len(results_list) : results_list[n].status = "error"

\* C4: when the job description is missing, empty, or normalizes to empty
\* text, the handler returns one batch-level error before the loop: no resume
\* is extracted, normalized or scored and no entry is produced, whatever
\* resume_files holds.
C4_EmptyJobDescriptionFailsFast ==
    JobDescriptionEmpty =>
        /\ results_list = <<>>
        /\ idx = 0
        /\ pc \in {"start", "returned"}
        /\ ~scoring.set
        /\ \A k \in Positions : stages[k] = <<"pending">>
        /\ pc = "returned" => response.status = "error" /\ response.code = 400

C4_Witness ==
    /\ pc = "returned"
    /\ data.present
    /\ data.has_job_description
    /\ data.job_description # <<>>
    /\ preprocess(data.job_description) = <<>>
    /\ \E k \in Positions : resume_files[k].has_path /\ ~ResumeFails(k)

\* The text of the pages whose extraction does not fail, each followed by a
\* newline.
RECURSIVE OtherPagesText(_)
OtherPagesText(pages) ==
    IF pages = <<>> THEN <<>>
    ELSE (IF Head(pages).raises \/ Head(pages).text = <<>> THEN <<>>
          ELSE Head(pages).text \o <<Newline>>) \o OtherPagesText(Tail(pages))

\* C5: a page whose text extraction fails contributes nothing and the other
\* pages are still read: the result is the text of the other pages, and it is
\* None only when no page yields text or the document cannot be parsed.
C5_PageFailureSkipped ==
    (call.fn = "extract_text_from_pdf" /\ ret.done) =>
        IF ~call.file.readable THEN ret.value = None
        ELSE IF OtherPagesText(call.file.pages) = <<>> THEN ret.value = None
        ELSE ret.value = Some(OtherPagesText(call.file.pages))

Range(seq) == {seq[k] : k \in 1..Len(seq)}

\* The skills of a text: the noun chunks of at most 3 words and more than 2
\* characters that are not all stop words.
SkillsOf(text, doc) ==
    IF text = <<>> THEN {}
    ELSE {c \in Range(doc.noun_chunks) :
            ChunkWords(c) <= 3 /\ ChunkLen(c) > 2 /\ ~ChunkAllStop(c)}

\* C6: strengths and missing share no element, strengths is drawn from the
\* job skills the resume has and missing from the job skills it lacks.
C6_StrengthsMissingDisjointFromJob ==
    (call.fn = "analyze_skills" /\ ret.done) =>
        LET J == SkillsOf(call.jd_text, call.jd_nlp)
            R == SkillsOf(call.resume_text, call.resume_nlp)
        IN /\ Range(ret.value.strengths) \cap Range(ret.value.missing) = {}
           /\ Range(ret.value.strengths) \subseteq J \cap R
           /\ Range(ret.value.missing) \subseteq J \ R

C6_Witness ==
    /\ call.fn = "analyze_skills"
    /\ ret.done
    /\ ret.value.strengths # <<>>
    /\ ret.value.missing # <<>>
    /\ SkillsOf(call.resume_text, call.resume_nlp)
           \ SkillsOf(call.jd_text, call.jd_nlp) # {}

\* C7: the output of preprocess is a space-joined token sequence with no
\* stop word and no token of length 1 or less, the surviving tokens in their
\* original order.
C7_NoStopWordNoShortToken ==
    (call.fn = "preprocess" /\ ret.done) =>
        LET out == word_tokenize(ret.value)
            kept == SelectSeq(word_tokenize(SubNonWord(LowerText(call.text))), KeepToken)
        IN /\ \A k \in 1..Len(out) : out[k] \notin stop_words /\ Len(out[k]) > 1
           /\ Len(out) = Len(kept)
           /\ \A k \in 1..Len(out) : out[k] = lemmatize(kept[k])

\* C8: key_strengths and missing_skills of every success entry hold at most
\* 10 skills, whatever the sizes of the skill sets.
C8_AtMostTenSkills ==
    \A n \in 1..Len(results_list) :
        results_list[n].status = "success" =>
            /\ Len(results_list[n].key_strengths) <= 10
            /\ Len(results_list[n].missing_skills) <= 10

C8_Witness ==
    /\ jd_processed # <<>>
    /\ Cardinality(SkillsOf(jd_processed, nlp[jd_processed])) > 10
    /\ \E n \in 1..Len(results_list) :
         /\ results_list[n].status = "success"
         /\ Len(results_list[n].key_strengths) = 10
    /\ \E n \in 1..Len(results_list) :
         /\ results_list[n].status = "success"
         /\ Len(results_list[n].missing_skills) = 10

NoUsableVector(text, doc) == text = <<>> \/ ~doc.has_vector \/ doc.vector = <<0, 0>>

\* C9: calculate_similarity returns 0.0 without computing the cosine when
\* either text is empty or either vector is missing or of zero norm; for
\* every other pair the value lies in [0.0, 100.0].
C9_SimilarityGuardedAndBounded ==
    (call.fn = "calculate_similarity" /\ ret.done) =>
        LET v == ret.value.value
        IN IF NoUsableVector(call.jd_text, call.jd_nlp)
              \/ NoUsableVector(call.resume_text, call.resume_nlp)
           THEN v.num = 0 /\ v.ulp = 0 /\ ret.value.cosine_calls = 0
           ELSE /\ v.num >= 0
                /\ v.num = 0 => v.ulp >= 0
                /\ v.num * v.num <= 10000 * v.rad
                /\ v.num * v.num = 10000 * v.rad => v.ulp <= 0

\* The cosine came out above 1 (parallel vectors, rounded up) and the value
\* is 100.0.
C9_Witness ==
    /\ call.fn = "calculate_similarity"
    /\ ret.done
    /\ ret.value.cosine_calls = 1
    /\ Dot(call.jd_nlp.vector, call.resume_nlp.vector) > 0
    /\ Dot(call.jd_nlp.vector, call.resume_nlp.vector)
           * Dot(call.jd_nlp.vector, call.resume_nlp.vector)
         = Dot(call.jd_nlp.vector, call.jd_nlp.vector)
           * Dot(call.resume_nlp.vector, call.resume_nlp.vector)
    /\ call.ulp = 1
    /\ ret.value.value = [num |-> 100, rad |-> 1, ulp |-> 0]

IsPrefix(a, b) == Len(a) <= Len(b) /\ a = SubSeq(b, 1, Len(a))

SuccessPath == <<"pending", "extracted", "normalized", "scored", "done">>

ExtractFailedPath == <<"pending", "failed">>

NormalizeFailedPath == <<"pending", "extracted", "failed">>

\* C10: a resume the handler processes goes through pending, extracted,
\* normalized, scored, done in that order and ends in exactly one of done or
\* failed; it is scored only with non-empty extracted and normalized text; one
\* with no extracted text fails with 'Could not extract text from PDF' and is
\* never normalized or scored; one with empty normalized text fails with
\* 'Could not preprocess resume text' and is never scored.
C10_StagesInOrder ==
    /\ scoring.set => ~Falsy(scoring.raw) /\ scoring.processed # <<>>
    /\ \A k \in 1..Len(stages) :
         /\ \/ IsPrefix(stages[k], SuccessPath)
            \/ stages[k] = ExtractFailedPath
            \/ stages[k] = NormalizeFailedPath
         /\ ExtractionFails(k) => IsPrefix(stages[k], ExtractFailedPath)
         /\ NormalizationFails(k) => IsPrefix(stages[k], NormalizeFailedPath)
         /\ stages[k] = ExtractFailedPath =>
                /\ Cardinality(EntriesOf(k)) = 1
                /\ \A n \in EntriesOf(k) :
                       /\ results_list[n].status = "error"
                       /\ results_list[n].message = "Could not extract text from PDF"
         /\ stages[k] = NormalizeFailedPath =>
                /\ Cardinality(EntriesOf(k)) = 1
                /\ \A n \in EntriesOf(k) :
                       /\ results_list[n].status = "error"
                       /\ results_list[n].message = "Could not preprocess resume text"
         /\ stages[k] = SuccessPath =>
                /\ Cardinality(EntriesOf(k)) = 1
                /\ \A n \in EntriesOf(k) : results_list[n].status = "success"
         /\ (LoopFinished /\ resume_files[k].has_path) => Ended(k)

C10_Witness ==
    /\ LoopFinished
    /\ \E a, b, c \in Positions :
         /\ stages[a] = SuccessPath
         /\ stages[b] = ExtractFailedPath
         /\ stages[c] = NormalizeFailedPath

====
